---- MODULE Spec2Model ----
(***************************************************************************)
(* The /report request of app.py and the agent loop of core/ai_agent.py.   *)
(* One request is followed from its arrival to the report handed to the    *)
(* rendering shell.  The browser driver, the remote model and the text the *)
(* model returns are the environment: every driver call may raise, the     *)
(* remote call may fail, and the returned text is whatever eval is given.  *)
(***************************************************************************)
EXTENDS Integers, Sequences, FiniteSets, TLC

VARIABLES
    pc,            \* position of the request handler / of the active run_tests frame
    target_url,    \* request.args.get('url'), kept as self.start_url
    env_key,       \* whether GEMINI_API_KEY is set in the environment
    session,       \* the browser session of self.driver: "none", "live", "closed"
    cur_url,       \* self.driver.current_url
    test_report,   \* self.test_report
    history,       \* self.history, one entry per line appended
    action_code,   \* the text generate_action returned to the loop
    frames,        \* the run_tests activations, innermost last
    response,      \* what render_template / redirect was given
    n_model_calls, \* invocations of client.models.generate_content in this request
    n_iterations,  \* loop bodies entered in this request
    trace,         \* every text the loop dispatched: what eval did with it, the
                   \* records the report gained from line 155 to the end of the
                   \* step (added), those it gained in line 151 (decided), and
                   \* whether the element wait ended without the element (missed)
    model_failed,  \* whether a remote call has failed in this request
    budget,        \* steps that may still depart from the baseline
    page,          \* the tags of self.driver.page_source, in document order
    page_state,    \* interactable_elements[:10] of the last get_page_state
    requests,      \* of requests served side by side: each one's frame and agent
    objects        \* of requests served side by side: the sessions and report dicts

vars == <<pc, target_url, env_key, session, cur_url, test_report, history, action_code,
          frames, response, n_model_calls, n_iterations, trace,
          model_failed, budget, page, page_state, requests, objects>>

----------------------------------------------------------------------------
(* Bounds of the exploration. *)

\* steps of one request that may depart from the baseline (a click that
\* passes, or finish_testing): any other model output, a driver exception,
\* an element that is not found, a failed remote call.
MaxDeviations == 2

\* run_tests activations that may be on the stack at once
MaxDepth == 2

----------------------------------------------------------------------------
(* Program constants and input sets. *)

\* max_steps after an off-by-one in the limit of line 41
max_steps_plus_one == 7 + 1

max_steps == 7

NoUrl == [host |-> "", path |-> ""]
TargetUrls == {[host |-> "example.test", path |-> ""]}
Paths == {"contact"}
Summaries == {"No issues found"}

CannedFinish == [fn |-> "finish_testing", args |-> <<"AI communication failed.">>]

SetupErrorMsg == "FATAL ERROR: GEMINI_API_KEY not found in environment."
ExecutionErrorMsg == "FATAL ERROR during test execution"

\* urljoin(base, path) for a relative path and a base without directories
urljoin(base, path) == [host |-> base.host, path |-> path]

\* the callables of AITestingAgent with the number of arguments each takes
Arity ==
    [fn \in {"click_element", "type_text", "navigate_to", "finish_testing",
             "report_action", "get_page_state", "generate_action", "run_tests"} |->
        CASE fn = "click_element"   -> 2
          [] fn = "type_text"       -> 3
          [] fn = "navigate_to"     -> 1
          [] fn = "finish_testing"  -> 1
          [] fn = "report_action"   -> 2
          [] fn = "get_page_state"  -> 0
          [] fn = "generate_action" -> 1
          [] fn = "run_tests"       -> 0]

\* the four actions the system prompt lists
GrammarActions == {"click_element", "type_text", "navigate_to", "finish_testing"}

\* expressions on other attributes of the agent that eval accepts as well
AttributeCalls == {"test_report['actions'].clear", "driver.quit"}

\* the texts the remote model may return
RawActions ==
    {[fn |-> "click_element", args |-> <<"id", "go">>],
     [fn |-> "type_text", args |-> <<"id", "q", "text">>],
     [fn |-> "navigate_to", args |-> <<>>],
     [fn |-> "no_such_action", args |-> <<>>],
     [fn |-> "report_action", args |-> <<"note", "PASS">>],
     [fn |-> "report_action", args |-> <<"note", "FINISH">>],
     [fn |-> "get_page_state", args |-> <<>>],
     [fn |-> "generate_action", args |-> <<"state">>],
     [fn |-> "run_tests", args |-> <<>>],
     [fn |-> "test_report['actions'].clear", args |-> <<>>],
     [fn |-> "driver.quit", args |-> <<>>]}
    \cup {[fn |-> "navigate_to", args |-> <<p>>] : p \in Paths}
    \cup {[fn |-> "finish_testing", args |-> <<s>>] : s \in Summaries}

\* texts that cost nothing of the budget
Baseline(code) ==
    \/ code.fn = "click_element" /\ Len(code.args) = 2
    \/ code.fn = "finish_testing" /\ Len(code.args) = 1

----------------------------------------------------------------------------
(* Helpers. *)

Last(s) == s[Len(s)]
Front(s) == SubSeq(s, 1, Len(s) - 1)

\* report_action's record, lines 136-137
Logged(rep, description, status, url) ==
    [rep EXCEPT !.actions = Append(@,
        [step |-> Len(rep.actions) + 1, action |-> description,
         status |-> status, url_after |-> url])]

\* report_action's history line, line 138
HistoryLine(rep, description, status) ==
    [step |-> Len(rep.actions) + 1, status |-> status, action |-> description]

\* LoopHead without the test for a FINISH record of lines 147-148
LoopHeadBudgetOnly(step, rep) ==
    IF step < max_steps THEN "observe" ELSE "quit"

\* the loop head, lines 146-148: the next position of a frame that has done `step` bodies
LoopHead(step, rep) ==
    IF step < max_steps
       /\ ~(rep.actions # <<>> /\ Last(rep.actions).status = "FINISH")
    THEN "observe" ELSE "quit"

Depth == Len(frames)
Top == frames[Depth]

----------------------------------------------------------------------------
(* get_page_state, lines 48-60: the element list of a page.  A text is a   *)
(* sequence of characters; an attribute is absent (tag.get gives None) or  *)
(* holds a text.                                                           *)

LabelLimit == 50
TopN == 10

Absent == [present |-> FALSE, value |-> <<>>]
Attr(text) == [present |-> TRUE, value |-> text]

\* Python's truth value of None and of a str
Truthy(a) == a.present /\ Len(a.value) > 0

\* Python's `a or b`
Or(a, b) == IF Truthy(a) THEN a ELSE b

RECURSIVE LStrip(_)
LStrip(s) == IF s # <<>> /\ Head(s) = " " THEN LStrip(Tail(s)) ELSE s

RECURSIVE RStrip(_)
RStrip(s) == IF s # <<>> /\ Last(s) = " " THEN RStrip(Front(s)) ELSE s

\* str.strip()
Strip(s) == RStrip(LStrip(s))

\* soup.find_all(['a', 'button', 'input']), line 51
FindAll(tags) == SelectSeq(tags, LAMBDA t : t.name \in {"a", "button", "input"})

\* line 52: aria-label, else the text, else placeholder, else name
Label(tag) ==
    Or(Or(Or(tag.aria_label, Attr(tag.text)), tag.placeholder), tag.name_attr)

\* line 53
Listed(tag) == Truthy(Label(tag)) /\ Len(Label(tag).value) < LabelLimit

\* line 54: the entry of a tag, with tag.get('id', 'N/A')
Entry(tag) ==
    [tag |-> tag.name, text |-> Strip(Label(tag).value),
     id |-> IF tag.id.present THEN tag.id.value ELSE <<"N", "/", "A">>]

\* lines 49-54: the loop over the tags found
RECURSIVE Collect(_, _)
Collect(tags, interactable_elements) ==
    IF tags = <<>> THEN interactable_elements
    ELSE Collect(Tail(tags),
                 IF Listed(Head(tags))
                 THEN Append(interactable_elements, Entry(Head(tags)))
                 ELSE interactable_elements)

\* interactable_elements[:10] with one element too few
FirstNine(elements) ==
    SubSeq(elements, 1, IF Len(elements) < TopN - 1 THEN Len(elements) ELSE TopN - 1)

\* line 60: interactable_elements[:10]
FirstTen(elements) ==
    SubSeq(elements, 1, IF Len(elements) < TopN THEN Len(elements) ELSE TopN)

InteractableElements(tags) == FirstTen(Collect(FindAll(tags), <<>>))

----------------------------------------------------------------------------
Init ==
    /\ pc = "idle"
    /\ target_url = NoUrl
    /\ env_key \in BOOLEAN
    /\ session = "none"
    /\ cur_url = NoUrl
    /\ test_report = [url |-> NoUrl, actions |-> <<>>, summary |-> ""]
    /\ history = <<>>
    /\ action_code = [fn |-> "", args |-> <<>>]
    /\ frames = <<>>
    /\ response = [kind |-> "none"]
    /\ n_model_calls = 0
    /\ n_iterations = 0
    /\ trace = <<>>
    /\ model_failed = FALSE
    /\ budget = MaxDeviations
    /\ page = <<>>
    /\ page_state = <<>>
    /\ requests = <<>>
    /\ objects = <<>>

----------------------------------------------------------------------------
(* How an activation of run_tests is left or continued. *)

SetResult(tr, i, r) == [tr EXCEPT ![i].result = r]
Settle(tr, i, r, n) == [tr EXCEPT ![i].result = r, ![i].added = n]

\* an exception leaves the active activation of run_tests: it reaches the
\* except clause of the activation whose eval called it, or app.py's
RaiseOut ==
    IF Depth > 1
    THEN /\ pc' = "except"
         /\ frames' = Front(frames)
         /\ trace' = SetResult(trace, frames[Depth - 1].tix, "raising")
    ELSE /\ pc' = "app_except"
         /\ frames' = <<>>
         /\ UNCHANGED trace

\* eval returned: time.sleep, then the loop head (lines 156, 146-148)
Done(result, rep) ==
    /\ trace' = Settle(trace, Top.tix, result, Len(rep.actions) - Top.mark)
    /\ frames' = [frames EXCEPT ![Depth].step = @ + 1]
    /\ pc' = LoopHead(Top.step + 1, rep)

\* eval raised: control goes to the except clause of line 157
Threw ==
    /\ trace' = SetResult(trace, Top.tix, "raising")
    /\ pc' = "except"
    /\ UNCHANGED frames

\* the same two for click_element / type_text after the wait has ended
\* in TimeoutException or NoSuchElementException (lines 106, 118)
Missed(tr) == [tr EXCEPT ![Top.tix].missed = TRUE]

DoneMissed(rep) ==
    /\ trace' = Settle(Missed(trace), Top.tix, "ERROR", Len(rep.actions) - Top.mark)
    /\ frames' = [frames EXCEPT ![Depth].step = @ + 1]
    /\ pc' = LoopHead(Top.step + 1, rep)

ThrewMissed ==
    /\ trace' = SetResult(Missed(trace), Top.tix, "raising")
    /\ pc' = "except"
    /\ UNCHANGED frames

Spend(n) == n <= budget /\ budget' = budget - n

\* whether a driver call raises: on a live session the environment decides,
\* on any other it does.  Where an action makes two driver calls the second
\* choice is read only when the first call returned, and is fixed otherwise.
Bools == IF session = "live" THEN BOOLEAN ELSE {TRUE}
Bit(b) == IF b /\ session = "live" THEN 1 ELSE 0

----------------------------------------------------------------------------
(* app.py: run_test_and_show_report *)

\* lines 29-32: no url parameter
Redirect ==
    /\ pc = "idle"
    /\ pc' = "done"
    /\ response' = [kind |-> "redirect"]
    /\ UNCHANGED <<target_url, env_key, session, cur_url, test_report, history,
                   action_code, frames, n_model_calls, n_iterations, trace, model_failed, budget>>
    /\ UNCHANGED <<page, page_state, requests, objects>>

\* SetupError with the credential looked at only after the agent, and with
\* it the browser session, has been created
SetupErrorAfterAgent ==
    /\ pc = "idle"
    /\ ~env_key
    /\ \E url \in TargetUrls :
        /\ target_url' = url
        /\ session' = "live"
        /\ test_report' = [url |-> url, actions |-> <<>>, summary |-> ""]
        /\ response' = [kind |-> "report", success |-> FALSE,
                        report |-> [url |-> url,
                                    actions |-> <<[step |-> 1, action |-> SetupErrorMsg,
                                                   status |-> "FATAL_ERROR"]>>,
                                    summary |-> "Setup Error"]]
    /\ pc' = "done"
    /\ UNCHANGED <<env_key, cur_url, history, action_code, frames, n_model_calls,
                   n_iterations, trace, model_failed, budget>>
    /\ UNCHANGED <<page, page_state, requests, objects>>

\* lines 35-41: the credential is missing
SetupError ==
    /\ pc = "idle"
    /\ ~env_key
    /\ \E url \in TargetUrls :
        /\ target_url' = url
        /\ response' = [kind |-> "report", success |-> FALSE,
                        report |-> [url |-> url,
                                    actions |-> <<[step |-> 1, action |-> SetupErrorMsg,
                                                   status |-> "FATAL_ERROR"]>>,
                                    summary |-> "Setup Error"]]
    /\ pc' = "done"
    /\ UNCHANGED <<env_key, session, cur_url, test_report, history, action_code,
                   frames, n_model_calls, n_iterations, trace,
                   model_failed, budget>>
    /\ UNCHANGED <<page, page_state, requests, objects>>

\* line 45 and AITestingAgent.__init__: the driver is created, then the report
ConstructAgent ==
    /\ pc = "idle"
    /\ env_key
    /\ \E url \in TargetUrls, chrome_fails \in BOOLEAN :
        /\ target_url' = url
        /\ Spend(IF chrome_fails THEN 1 ELSE 0)
        /\ IF chrome_fails
           THEN /\ pc' = "app_except"
                /\ UNCHANGED <<session, test_report>>
           ELSE /\ pc' = "start"
                /\ session' = "live"
                /\ test_report' = [url |-> url, actions |-> <<>>, summary |-> ""]
    /\ UNCHANGED <<env_key, cur_url, history, action_code, frames, response,
                   n_model_calls, n_iterations, trace, model_failed>>
    /\ UNCHANGED <<page, page_state, requests, objects>>

\* lines 49-53: run_tests returned
RenderReport ==
    /\ pc = "app_return"
    /\ response' = [kind |-> "report", success |-> TRUE, report |-> test_report]
    /\ pc' = "done"
    /\ UNCHANGED <<target_url, env_key, session, cur_url, test_report, history,
                   action_code, frames, n_model_calls, n_iterations, trace, model_failed, budget>>
    /\ UNCHANGED <<page, page_state, requests, objects>>

\* lines 55-61: the constructor or run_tests raised
ExecutionFailed ==
    /\ pc = "app_except"
    /\ response' = [kind |-> "report", success |-> FALSE,
                    report |-> [url |-> target_url,
                                actions |-> <<[step |-> 1, action |-> ExecutionErrorMsg,
                                               status |-> "FATAL_ERROR"]>>,
                                summary |-> "Execution Failed"]]
    /\ pc' = "done"
    /\ UNCHANGED <<target_url, env_key, session, cur_url, test_report, history,
                   action_code, frames, n_model_calls, n_iterations, trace, model_failed, budget>>
    /\ UNCHANGED <<page, page_state, requests, objects>>

----------------------------------------------------------------------------
(* core/ai_agent.py: AITestingAgent *)

\* report_action, lines 134-139, once driver.current_url has been read as `url`
ReportAction(description, status, url) ==
    /\ test_report' = Logged(test_report, description, status, url)
    /\ history' = Append(history, HistoryLine(test_report, description, status))

\* run_tests, lines 143-144, entered above the activations `outer`; an
\* exception of driver.get or of report_action leaves it before the loop
EnterRunTests(outer, get_raises, write_raises) ==
    IF get_raises
    THEN /\ UNCHANGED <<cur_url, test_report, history>>
         /\ IF outer = <<>>
            THEN pc' = "app_except" /\ UNCHANGED <<frames, trace>>
            ELSE Threw
    ELSE /\ cur_url' = target_url
         /\ IF write_raises
            THEN /\ UNCHANGED <<test_report, history>>
                 /\ IF outer = <<>>
                    THEN pc' = "app_except" /\ UNCHANGED <<frames, trace>>
                    ELSE Threw
            ELSE /\ ReportAction("Initial navigation", "PASS", target_url)
                 /\ frames' = Append(outer, [step |-> 0, mark |-> 0, tix |-> 0])
                 /\ pc' = LoopHead(0, test_report')
                 /\ UNCHANGED trace

\* line 46: agent.run_tests()
RunTests ==
    /\ pc = "start"
    /\ \E g \in Bools, w \in Bools :
        /\ g => w
        /\ Spend(Bit(g) + (IF g THEN 0 ELSE Bit(w)))
        /\ EnterRunTests(<<>>, g, w)
    /\ UNCHANGED <<target_url, env_key, session, action_code, response,
                   n_model_calls, n_iterations, model_failed>>
    /\ UNCHANGED <<page, page_state, requests, objects>>

\* line 150 and get_page_state, lines 43-62: outside the try of line 153
GetPageState ==
    /\ pc = "observe"
    /\ n_iterations' = n_iterations + 1
    /\ \E r \in Bools :
        /\ Spend(Bit(r))
        /\ IF r
           THEN RaiseOut /\ UNCHANGED page_state
           ELSE /\ page_state' = InteractableElements(page)
                /\ pc' = "decide"
                /\ UNCHANGED <<frames, trace>>
    /\ UNCHANGED <<target_url, env_key, session, cur_url, test_report, history,
                   action_code, response, n_model_calls, model_failed>>
    /\ UNCHANGED <<page, requests, objects>>

\* the loop takes the text to eval: line 151 hands it to line 155
Take(code, rep) ==
    /\ action_code' = code
    /\ trace' = Append(trace, [code |-> code, result |-> "pending", added |-> 0,
                               missed |-> FALSE,
                               decided |-> Len(rep.actions) - Len(test_report.actions)])
    /\ frames' = [frames EXCEPT ![Depth] =
                    [@ EXCEPT !.mark = Len(rep.actions), !.tix = Len(trace) + 1]]
    /\ pc' = "dispatch"

\* generate_action, lines 84-93: the remote call returns a text
GenerateAction ==
    /\ pc = "decide"
    /\ n_model_calls' = n_model_calls + 1
    /\ \E code \in RawActions :
        /\ code.fn = "run_tests" => Depth < MaxDepth
        /\ Spend(IF Baseline(code) THEN 0 ELSE 1)
        /\ Take(code, test_report)
    /\ UNCHANGED <<target_url, env_key, session, cur_url, test_report, history,
                   response, n_iterations, model_failed>>
    /\ UNCHANGED <<page, page_state, requests, objects>>

\* generate_action, lines 94-96: the remote call raised
GenerateActionFails ==
    /\ pc = "decide"
    /\ n_model_calls' = n_model_calls + 1
    /\ model_failed' = TRUE
    /\ \E w \in Bools :
        /\ Spend(1 + Bit(w))
        /\ IF w
           THEN /\ RaiseOut
                /\ UNCHANGED <<test_report, history, action_code>>
           ELSE /\ ReportAction("Error calling Gemini", "FATAL_ERROR", cur_url)
                /\ Take(CannedFinish, test_report')
    /\ UNCHANGED <<target_url, env_key, session, cur_url, response,
                   n_iterations>>
    /\ UNCHANGED <<page, page_state, requests, objects>>

----------------------------------------------------------------------------
(* Line 155: eval(f"self.{action_code}"), by what the text names. *)

Evaluating(fn) ==
    /\ pc = "dispatch"
    /\ action_code.fn = fn
    /\ fn \in DOMAIN Arity => Len(action_code.args) = Arity[fn]

\* WebDriverWait(...).until(find_element): the element is found, the wait
\* times out, or the driver raises something else
WaitOutcomes == IF session = "live" THEN {"found", "missing", "error"} ELSE {"error"}

\* click_element, lines 99-107
ClickElement ==
    /\ Evaluating("click_element")
    /\ \E o \in WaitOutcomes, w \in Bools :
        /\ o = "error" => w
        /\ Spend((IF o = "found" \/ session # "live" THEN 0 ELSE 1)
                 + (IF o = "error" THEN 0 ELSE Bit(w)))
        /\ IF o = "error" \/ w
           THEN /\ IF o = "missing" THEN ThrewMissed ELSE Threw
                /\ UNCHANGED <<test_report, history>>
           ELSE IF o = "found"
                THEN /\ ReportAction("Clicked element", "PASS", cur_url)
                     /\ Done("PASS", test_report')
                ELSE /\ ReportAction("Failed to click element", "ERROR", cur_url)
                     /\ DoneMissed(test_report')
    /\ UNCHANGED <<target_url, env_key, session, cur_url, action_code, response,
                   n_model_calls, n_iterations, model_failed>>
    /\ UNCHANGED <<page, page_state, requests, objects>>

\* type_text, lines 109-119
TypeText ==
    /\ Evaluating("type_text")
    /\ \E o \in WaitOutcomes, w \in Bools :
        /\ o = "error" => w
        /\ Spend((IF o = "found" \/ session # "live" THEN 0 ELSE 1)
                 + (IF o = "error" THEN 0 ELSE Bit(w)))
        /\ IF o = "error" \/ w
           THEN /\ IF o = "missing" THEN ThrewMissed ELSE Threw
                /\ UNCHANGED <<test_report, history>>
           ELSE IF o = "found"
                THEN /\ ReportAction("Typed text", "PASS", cur_url)
                     /\ Done("PASS", test_report')
                ELSE /\ ReportAction("Failed to type text", "ERROR", cur_url)
                     /\ DoneMissed(test_report')
    /\ UNCHANGED <<target_url, env_key, session, cur_url, action_code, response,
                   n_model_calls, n_iterations, model_failed>>
    /\ UNCHANGED <<page, page_state, requests, objects>>

\* navigate_to, lines 121-125
NavigateTo ==
    /\ Evaluating("navigate_to")
    /\ LET new_url == urljoin(target_url, action_code.args[1]) IN
       \E g \in Bools, w \in Bools :
        /\ g => w
        /\ Spend(Bit(g) + (IF g THEN 0 ELSE Bit(w)))
        /\ IF g
           THEN Threw /\ UNCHANGED <<cur_url, test_report, history>>
           ELSE /\ cur_url' = new_url
                /\ IF w
                   THEN Threw /\ UNCHANGED <<test_report, history>>
                   ELSE /\ ReportAction("Navigated to", "PASS", new_url)
                        /\ Done("PASS", test_report')
    /\ UNCHANGED <<target_url, env_key, session, action_code, response,
                   n_model_calls, n_iterations, model_failed>>
    /\ UNCHANGED <<page, page_state, requests, objects>>

\* finish_testing, lines 127-130: the summary is set before the record is written
FinishTesting ==
    /\ Evaluating("finish_testing")
    /\ LET summary == action_code.args[1]
           rep == [test_report EXCEPT !.summary = summary] IN
       \E w \in Bools :
        /\ Spend(Bit(w))
        /\ IF w
           THEN /\ test_report' = rep
                /\ UNCHANGED history
                /\ Threw
           ELSE /\ test_report' = Logged(rep, summary, "FINISH", cur_url)
                /\ history' = Append(history, HistoryLine(rep, summary, "FINISH"))
                /\ Done("FINISH", test_report')
    /\ UNCHANGED <<target_url, env_key, session, cur_url, action_code, response,
                   n_model_calls, n_iterations, model_failed>>
    /\ UNCHANGED <<page, page_state, requests, objects>>

\* a method of the agent called with the wrong number of arguments: TypeError
EvalTypeError ==
    /\ pc = "dispatch"
    /\ action_code.fn \in DOMAIN Arity
    /\ Len(action_code.args) # Arity[action_code.fn]
    /\ Threw
    /\ UNCHANGED <<target_url, env_key, session, cur_url, test_report, history,
                   action_code, response, n_model_calls, n_iterations,
                   model_failed, budget>>
    /\ UNCHANGED <<page, page_state, requests, objects>>

\* a name the agent does not have: AttributeError
EvalAttributeError ==
    /\ pc = "dispatch"
    /\ action_code.fn \notin DOMAIN Arity \cup AttributeCalls
    /\ Threw
    /\ UNCHANGED <<target_url, env_key, session, cur_url, test_report, history,
                   action_code, response, n_model_calls, n_iterations,
                   model_failed, budget>>
    /\ UNCHANGED <<page, page_state, requests, objects>>

\* the text names report_action: eval calls it with the model's arguments
EvalReportAction ==
    /\ Evaluating("report_action")
    /\ \E w \in Bools :
        /\ Spend(Bit(w))
        /\ IF w
           THEN Threw /\ UNCHANGED <<test_report, history>>
           ELSE /\ ReportAction(action_code.args[1], action_code.args[2], cur_url)
                /\ Done("executed", test_report')
    /\ UNCHANGED <<target_url, env_key, session, cur_url, action_code, response,
                   n_model_calls, n_iterations, model_failed>>
    /\ UNCHANGED <<page, page_state, requests, objects>>

\* the text names get_page_state: the page is read again, nothing is recorded
EvalGetPageState ==
    /\ Evaluating("get_page_state")
    /\ \E r \in Bools :
        /\ Spend(Bit(r))
        /\ IF r THEN Threw ELSE Done("executed", test_report)
    /\ UNCHANGED <<target_url, env_key, session, cur_url, test_report, history,
                   action_code, response, n_model_calls, n_iterations,
                   model_failed>>
    /\ UNCHANGED <<page, page_state, requests, objects>>

\* the text names generate_action: the remote model is called once more and
\* the text it returns is dropped
EvalGenerateAction ==
    /\ Evaluating("generate_action")
    /\ n_model_calls' = n_model_calls + 1
    /\ \E fails \in BOOLEAN, w \in Bools :
        /\ ~fails => w
        /\ Spend(IF fails THEN 1 + Bit(w) ELSE 0)
        /\ model_failed' = (model_failed \/ fails)
        /\ IF ~fails
           THEN Done("executed", test_report) /\ UNCHANGED <<test_report, history>>
           ELSE IF w
                THEN Threw /\ UNCHANGED <<test_report, history>>
                ELSE /\ ReportAction("Error calling Gemini", "FATAL_ERROR", cur_url)
                     /\ Done("executed", test_report')
    /\ UNCHANGED <<target_url, env_key, session, cur_url, action_code, response,
                   n_iterations>>
    /\ UNCHANGED <<page, page_state, requests, objects>>

\* the text names run_tests: a second activation starts over the same report
EvalRunTests ==
    /\ Evaluating("run_tests")
    /\ Depth < MaxDepth
    /\ \E g \in Bools, w \in Bools :
        /\ g => w
        /\ Spend(Bit(g) + (IF g THEN 0 ELSE Bit(w)))
        /\ EnterRunTests(frames, g, w)
    /\ UNCHANGED <<target_url, env_key, session, action_code, response,
                   n_model_calls, n_iterations, model_failed>>
    /\ UNCHANGED <<page, page_state, requests, objects>>

\* the text reaches into the report: its action list is emptied
EvalClearActions ==
    /\ Evaluating("test_report['actions'].clear")
    /\ test_report' = [test_report EXCEPT !.actions = <<>>]
    /\ Done("executed", test_report')
    /\ UNCHANGED <<target_url, env_key, session, cur_url, history, action_code,
                   response, n_model_calls, n_iterations, model_failed, budget>>
    /\ UNCHANGED <<page, page_state, requests, objects>>

\* the text reaches into the driver: the session is closed in mid-run
EvalDriverQuit ==
    /\ Evaluating("driver.quit")
    /\ session' = "closed"
    /\ Done("executed", test_report)
    /\ UNCHANGED <<target_url, env_key, cur_url, test_report, history, action_code,
                   response, n_model_calls, n_iterations, model_failed, budget>>
    /\ UNCHANGED <<page, page_state, requests, objects>>

\* lines 157-159: the FATAL_ERROR record, then break; when writing the
\* record raises, the exception leaves run_tests
ExceptClause ==
    /\ pc = "except"
    /\ \E w \in Bools :
        /\ Spend(Bit(w))
        /\ IF w
           THEN /\ IF Depth > 1
                   THEN /\ pc' = "except"
                        /\ frames' = Front(frames)
                        /\ trace' = SetResult(
                              Settle(trace, Top.tix, "raised",
                                     Len(test_report.actions) - Top.mark),
                              frames[Depth - 1].tix, "raising")
                   ELSE /\ pc' = "app_except"
                        /\ frames' = <<>>
                        /\ trace' = Settle(trace, Top.tix, "raised",
                                           Len(test_report.actions) - Top.mark)
                /\ UNCHANGED <<test_report, history>>
           ELSE /\ ReportAction("CRITICAL ERROR executing AI code", "FATAL_ERROR", cur_url)
                /\ trace' = Settle(trace, Top.tix, "raised",
                                   Len(test_report'.actions) - Top.mark)
                /\ pc' = "quit"
                /\ UNCHANGED frames
    /\ UNCHANGED <<target_url, env_key, session, cur_url, action_code, response,
                   n_model_calls, n_iterations, model_failed>>
    /\ UNCHANGED <<page, page_state, requests, objects>>

\* lines 161-162: driver.quit(), return self.test_report; the report goes to
\* app.py, or to the eval of the activation that called run_tests
QuitAndReturn ==
    /\ pc = "quit"
    /\ session' = "closed"
    /\ IF Depth > 1
       THEN LET outer == frames[Depth - 1] IN
            /\ trace' = Settle(trace, outer.tix, "executed",
                                Len(test_report.actions) - outer.mark)
            /\ frames' = [Front(frames) EXCEPT ![Depth - 1].step = @ + 1]
            /\ pc' = LoopHead(outer.step + 1, test_report)
       ELSE /\ pc' = "app_return"
            /\ frames' = <<>>
            /\ UNCHANGED trace
    /\ UNCHANGED <<target_url, env_key, cur_url, test_report, history, action_code,
                   response, n_model_calls, n_iterations, model_failed, budget>>
    /\ UNCHANGED <<page, page_state, requests, objects>>

----------------------------------------------------------------------------
Next ==
    \/ Redirect
    \/ SetupError
    \/ ConstructAgent
    \/ RunTests
    \/ GetPageState
    \/ GenerateAction
    \/ GenerateActionFails
    \/ ClickElement
    \/ TypeText
    \/ NavigateTo
    \/ FinishTesting
    \/ EvalTypeError
    \/ EvalAttributeError
    \/ EvalReportAction
    \/ EvalGetPageState
    \/ EvalGenerateAction
    \/ EvalRunTests
    \/ EvalClearActions
    \/ EvalDriverQuit
    \/ ExceptClause
    \/ QuitAndReturn
    \/ RenderReport
    \/ ExecutionFailed

Spec == Init /\ [][Next]_vars

----------------------------------------------------------------------------
(* Vocabulary of the properties. *)

\* control is back in the flask handler after AITestingAgent(...).run_tests()
BackInCaller == pc \in {"app_return", "app_except", "done"}

\* the rendering shell was handed the report run_tests returned
Returned == response.kind = "report" /\ response.success

Settled(e) == e.result \notin {"pending", "raising"}

NumberedFromOne(actions) == \A i \in DOMAIN actions : actions[i].step = i

HasFinish(actions) == \E i \in DOMAIN actions : actions[i].status = "FINISH"

----------------------------------------------------------------------------
(* C1: on every exit path of a run the browser session created by the      *)
(* constructor has been closed when control is back in the caller.         *)
C1_SessionClosedOnEveryExit ==
    (BackInCaller /\ session # "none") => session = "closed"

(* C2: once the loop has started, run_tests never exits by an exception:   *)
(* it returns the accumulated report with the records written so far.      *)
C2_LoopNeverPropagates ==
    /\ ~(pc = "app_except" /\ n_iterations > 0)
    /\ (pc = "done" /\ n_iterations > 0) =>
          (Returned /\ response.report = test_report)

(* C3: a text whose name is not one of the four grammar actions is         *)
(* rejected: nothing is executed, exactly one FATAL_ERROR record is        *)
(* appended, the loop aborts and the session is closed afterwards.         *)
C3_NonGrammarRejected ==
    \A i \in DOMAIN trace :
        trace[i].code.fn \notin GrammarActions =>
            /\ trace[i].result \in {"pending", "raising", "raised"}
            /\ Settled(trace[i]) => trace[i].added = 1
            /\ pc = "done" =>
                  /\ i = Len(trace)
                  /\ session = "closed"
                  /\ Returned
                  /\ Last(response.report.actions).status = "FATAL_ERROR"

(* C4: every dispatch of a raw action string appends exactly one record,   *)
(* never zero and never two.                                               *)
C4_OneRecordPerDispatch ==
    \A i \in DOMAIN trace :
        Settled(trace[i]) =>
            /\ trace[i].added = 1
            /\ trace[i].decided + trace[i].added = 1

(* C5: after INIT and in every returned report the action list is          *)
(* non-empty and the record at position i has step number i.               *)
C5_StepsOneToN ==
    /\ (frames # <<>> \/ pc = "app_return") =>
          (test_report.actions # <<>> /\ NumberedFromOne(test_report.actions))
    /\ Returned =>
          (response.report.actions # <<>> /\ NumberedFromOne(response.report.actions))

(* C6: whatever the model returns, a run performs at most max_steps loop   *)
(* iterations and invokes the model at most max_steps times.               *)
C6_WithinStepBudget ==
    n_iterations <= max_steps /\ n_model_calls <= max_steps

(* C7: when the remote call fails, generate_action does not raise; the run *)
(* ends with the FINISH record 'AI communication failed.' as its last      *)
(* record and as its summary, the model is not invoked again and the       *)
(* session is closed.                                                      *)
C7_RemoteFailureFinishes ==
    model_failed =>
        /\ pc # "app_except"
        /\ pc = "done" =>
              /\ Returned
              /\ session = "closed"
              /\ Last(response.report.actions).status = "FINISH"
              /\ Last(response.report.actions).action = CannedFinish.args[1]
              /\ response.report.summary = CannedFinish.args[1]
              /\ Last(trace).code = CannedFinish
              /\ Len(trace) = n_model_calls

(* C8: when the model never returns finish_testing and no dispatched       *)
(* action is fatal, the run does exactly max_steps iterations, closes the  *)
(* session and returns a report without FINISH record and with the empty   *)
(* summary.                                                                *)
C8_BudgetExhaustion ==
    ( /\ pc = "done"
      /\ Returned
      /\ ~model_failed
      /\ \A i \in DOMAIN trace :
            /\ trace[i].code.fn # "finish_testing"
            /\ trace[i].result # "raised" )
    => /\ n_iterations = max_steps
       /\ session = "closed"
       /\ ~HasFinish(response.report.actions)
       /\ response.report.summary = ""

(* C9: k grammar actions that pass, then finish_testing(s), k + 1 <=       *)
(* max_steps: the returned report has k + 2 records, the initial           *)
(* navigation (PASS), the k actions, and last the FINISH record with       *)
(* description s; the summary is s; the model was invoked k + 1 times.     *)
C9_FinishScenario ==
    ( /\ pc = "done"
      /\ Returned
      /\ ~model_failed
      /\ trace # <<>>
      /\ Len(trace) <= max_steps
      /\ Last(trace).code.fn = "finish_testing"
      /\ \A i \in 1..(Len(trace) - 1) :
            /\ trace[i].code.fn \in GrammarActions \ {"finish_testing"}
            /\ trace[i].result = "PASS" )
    => LET k == Len(trace) - 1
           s == Last(trace).code.args[1]
           actions == response.report.actions IN
       /\ Len(actions) = k + 2
       /\ actions[1].status = "PASS" /\ actions[1].action = "Initial navigation"
       /\ \A i \in 2..(k + 1) : actions[i].status = "PASS"
       /\ Last(actions).status = "FINISH"
       /\ Last(actions).action = s
       /\ response.report.summary = s
       /\ n_model_calls = k + 1

(* C10: without the credential a /report request creates neither a browser *)
(* session nor an agent; the rendering shell gets the setup-error report   *)
(* with the single record of step 1 and status FATAL_ERROR.                *)
C10_MissingCredential ==
    ~env_key =>
        /\ session = "none"
        /\ frames = <<>>
        /\ test_report.url = NoUrl
        /\ pc = "done" /\ response.kind = "report" =>
              /\ response.report.summary = "Setup Error"
              /\ Len(response.report.actions) = 1
              /\ response.report.actions[1].step = 1
              /\ response.report.actions[1].status = "FATAL_ERROR"
              /\ response.report.actions[1].action = SetupErrorMsg

C10_Witness ==
    ~env_key /\ pc = "done" /\ response.kind = "report"


----------------------------------------------------------------------------
Statuses == {"PASS", "ERROR", "FATAL_ERROR", "FINISH"}

RecordFields == {"step", "action", "status", "url_after"}

(* C11: every report handed to the rendering shell has url, actions and    *)
(* summary, and each of its records has the four fields step, action,      *)
(* status and url_after, with a status among the four.                     *)
C11_ReportWellFormed ==
    response.kind = "report" =>
        /\ DOMAIN response.report = {"url", "actions", "summary"}
        /\ \A i \in DOMAIN response.report.actions :
              /\ DOMAIN response.report.actions[i] = RecordFields
              /\ response.report.actions[i].status \in Statuses


(* C12: when click_element or type_text does not find its element, the     *)
(* action appends exactly one record, with status ERROR, and the run goes  *)
(* on: with iterations left the loop observes the page again; the ERROR    *)
(* record does not end the run and does not set the summary.               *)
C12_MissIsRecoverable ==
    \A i \in DOMAIN trace :
        (trace[i].missed /\ Settled(trace[i])) =>
            /\ trace[i].result = "ERROR"
            /\ trace[i].added = 1
            /\ (i = Len(trace) /\ Depth = 1 /\ pc \in {"observe", "quit"}) =>
                  /\ Last(test_report.actions).status = "ERROR"
                  /\ test_report.summary = ""
                  /\ (Top.step < max_steps <=> pc = "observe")


(* C15: when a dispatched grammar action raises an exception it does not   *)
(* catch, the loop appends exactly one FATAL_ERROR record with the failure *)
(* description, dispatches nothing further and returns a report whose last *)
(* record is that record.                                                  *)
C15_UncaughtIsFatal ==
    \A i \in DOMAIN trace :
        ( /\ trace[i].code.fn \in {"click_element", "type_text", "navigate_to"}
          /\ trace[i].result = "raised" ) =>
            /\ trace[i].added = 1
            /\ i = Len(trace)
            /\ pc # "app_except"
            /\ pc = "done" =>
                  /\ Returned
                  /\ Last(response.report.actions).status = "FATAL_ERROR"
                  /\ Last(response.report.actions).action
                        = "CRITICAL ERROR executing AI code"


C17_ReportAppendOnly ==
    [][session # "none" =>
          /\ Len(test_report'.actions) >= Len(test_report.actions)
          /\ SubSeq(test_report'.actions, 1, Len(test_report.actions))
                = test_report.actions
          /\ test_report'.url = target_url
          /\ test_report'.summary # test_report.summary =>
                (pc = "dispatch" /\ action_code.fn = "finish_testing")]_vars


(* C19: the report holds at most one FINISH record, a FINISH record is     *)
(* the last record, and the summary is non-empty only if a FINISH record   *)
(* exists, whose description it then equals.                               *)
C19_FinishIsLastAndSummarised ==
    LET actions == test_report.actions IN
    /\ Cardinality({i \in DOMAIN actions : actions[i].status = "FINISH"}) <= 1
    /\ \A i \in DOMAIN actions : actions[i].status = "FINISH" => i = Len(actions)
    /\ test_report.summary # "" =>
          (HasFinish(actions) /\ Last(actions).action = test_report.summary)


(* C20: when every text the loop dispatched is one of the four grammar     *)
(* actions, the report never holds more than max_steps + 2 = 9 records.    *)
C20_AtMostNineRecords ==
    (\A i \in DOMAIN trace : trace[i].code.fn \in GrammarActions) =>
        Len(test_report.actions) <= 9

C20_Witness ==
    /\ trace # <<>>
    /\ \A i \in DOMAIN trace : trace[i].code.fn \in GrammarActions
    /\ model_failed
    /\ Len(test_report.actions) = 9


----------------------------------------------------------------------------
(* get_page_state on its own: pages are built tag by tag and observed.     *)

MaxTags == 12

Tag(name, aria_label, text, placeholder, name_attr, id) ==
    [name |-> name, aria_label |-> aria_label, text |-> text,
     placeholder |-> placeholder, name_attr |-> name_attr, id |-> id]

\* <button id="i">ok</button> and <input id="i">
Labelled(i) == Tag("button", Absent, <<"o", "k">>, Absent, Absent, Attr(<<ToString(i)>>))
Unlabelled(i) == Tag("input", Absent, <<>>, Absent, Absent, Attr(<<ToString(i)>>))

InitPages(pages) ==
    /\ pc = "parse"
    /\ page \in pages
    /\ page_state = <<>>
    /\ requests = <<>>
    /\ objects = <<>>
    /\ target_url = NoUrl
    /\ env_key = TRUE
    /\ session = "live"
    /\ cur_url = NoUrl
    /\ test_report = [url |-> NoUrl, actions |-> <<>>, summary |-> ""]
    /\ history = <<>>
    /\ action_code = [fn |-> "", args |-> <<>>]
    /\ frames = <<>>
    /\ response = [kind |-> "none"]
    /\ n_model_calls = 0
    /\ n_iterations = 0
    /\ trace = <<>>
    /\ model_failed = FALSE
    /\ budget = 0

\* the page gains one more tag, given its position as id
AppendTag ==
    /\ pc = "parse"
    /\ Len(page) < MaxTags
    /\ \E tag \in {Labelled(Len(page) + 1), Unlabelled(Len(page) + 1)} :
        page' = Append(page, tag)
    /\ UNCHANGED <<pc, page_state, target_url, env_key, session, cur_url, test_report,
                   history, action_code, frames, response, n_model_calls, n_iterations,
                   trace, model_failed, budget, requests, objects>>

\* lines 48-60 on the page as it stands
ExtractElements ==
    /\ pc = "parse"
    /\ pc' = "extracted"
    /\ page_state' = InteractableElements(page)
    /\ UNCHANGED <<page, target_url, env_key, session, cur_url, test_report,
                   history, action_code, frames, response, n_model_calls, n_iterations,
                   trace, model_failed, budget, requests, objects>>

NextExtract ==
    \/ AppendTag
    \/ ExtractElements

SpecExtract == InitPages({<<>>}) /\ [][NextExtract]_vars

\* the candidates of the page, by the claim's definition, in document order
Candidates ==
    SelectSeq(page, LAMBDA t : t.name \in {"a", "button", "input"} /\ Listed(t))

\* C13: a page with n candidates (anchor, button or input tags with an
\* admissible label) is observed as exactly min(n, 10) elements, and they are
\* the first min(n, 10) candidates in document order.
C13_FirstTenCandidates ==
    pc = "extracted" =>
        /\ Len(page_state) = IF Len(Candidates) < 10 THEN Len(Candidates) ELSE 10
        /\ \A i \in 1..Len(page_state) :
            /\ page_state[i].id = Candidates[i].id.value
            /\ page_state[i].tag = Candidates[i].name

\* a page of more than ten candidates among other tags, observed and truncated
C13_Witness ==
    /\ pc = "extracted"
    /\ Len(Candidates) > 10
    /\ Len(Candidates) < Len(page)
    /\ Len(page_state) = 10


----------------------------------------------------------------------------
(* get_page_state on pages of one tag, over the attributes it reads.       *)

RECURSIVE Rep(_, _)
Rep(c, n) == IF n = 0 THEN <<>> ELSE <<c>> \o Rep(c, n - 1)

\* texts of the character c: empty, blank, short, padded, and either side of
\* the length limit
Texts(c) ==
    {<<>>, <<" ">>, <<c>>, <<" ", c, " ">>, Rep(c, LabelLimit - 1), Rep(c, LabelLimit)}

Attrs(c) == {Absent} \cup {Attr(text) : text \in Texts(c)}

OneTagPages ==
    {<<Tag(name, aria_label, text, placeholder, name_attr, id)>> :
        name \in {"a", "button", "input", "div"},
        aria_label \in Attrs("l"),
        text \in Texts("t"),
        placeholder \in Attrs("p"),
        name_attr \in Attrs("n"),
        id \in {Absent, Attr(<<"i">>)}}

NextLabel ==
    \/ ExtractElements

SpecLabel == InitPages(OneTagPages) /\ [][NextLabel]_vars

\* the four sources of a label, in the order of the policy
Sources(tag) == <<tag.aria_label, Attr(tag.text), tag.placeholder, tag.name_attr>>

\* the sources that hold something other than whitespace
Resolvable(tag) ==
    {i \in 1..4 : Sources(tag)[i].present /\ Strip(Sources(tag)[i].value) # <<>>}

FirstResolvable(tag) ==
    Sources(tag)[CHOOSE i \in Resolvable(tag) : \A j \in Resolvable(tag) : i <= j]

\* C18: for an anchor, button or input tag the label is the first non-empty
\* of accessible label, visible text, placeholder, name; the tag is listed
\* if and only if such a label exists and has fewer than 50 characters, so a
\* tag with no resolvable label (whitespace-only text included) is left out.
C18_LabelPolicy ==
    (pc = "extracted" /\ page[1].name \in {"a", "button", "input"}) =>
        IF Resolvable(page[1]) # {} /\ Len(FirstResolvable(page[1]).value) < 50
        THEN /\ Len(page_state) = 1
             /\ page_state[1].text = Strip(FirstResolvable(page[1]).value)
        ELSE page_state = <<>>


----------------------------------------------------------------------------
(* Two /report requests served side by side.  Objects live in a heap and   *)
(* are held by reference, as Python holds them: a request's frame holds    *)
(* its agent, the agent holds its driver and its report dict.  A record    *)
(* carries who wrote it (by) and the session whose URL it read (via).      *)

Runs == {1, 2}
MaxFaults == 1
NoRef == 0

single == <<pc, target_url, env_key, session, cur_url, test_report, history, action_code,
            frames, response, n_model_calls, n_iterations, trace, model_failed,
            page, page_state>>

InitTwoRuns ==
    /\ pc = "serving"
    /\ requests = [r \in Runs |->
                      [pc |-> "received", driver |-> NoRef, test_report |-> NoRef,
                       history |-> <<>>, step |-> 0, rendered |-> NoRef]]
    /\ objects = [sessions |-> <<>>, reports |-> <<>>]
    /\ budget = MaxFaults
    /\ page = <<>>
    /\ page_state = <<>>
    /\ target_url = NoUrl
    /\ env_key = TRUE
    /\ session = "none"
    /\ cur_url = NoUrl
    /\ test_report = [url |-> NoUrl, actions |-> <<>>, summary |-> ""]
    /\ history = <<>>
    /\ action_code = [fn |-> "", args |-> <<>>]
    /\ frames = <<>>
    /\ response = [kind |-> "none"]
    /\ n_model_calls = 0
    /\ n_iterations = 0
    /\ trace = <<>>
    /\ model_failed = FALSE

World == [requests |-> requests, objects |-> objects]

\* a departure from the plain run costs one of the budget
Fault(b) == IF b THEN 1 ELSE 0

Become(w) == requests' = w.requests /\ objects' = w.objects

NoSummary == [by |-> NoRef, text |-> ""]

\* report_action of run r's agent, lines 134-137
ReportActionOf(w, r, status) ==
    LET agent == w.requests[r]
        log == [step |-> Len(w.objects.reports[agent.test_report].actions) + 1,
                status |-> status, by |-> r, via |-> agent.driver]
    IN  [requests |-> [w.requests EXCEPT ![r].history =
                          Append(@, [step |-> log.step, status |-> status, by |-> r])],
         objects |-> [w.objects EXCEPT
                          !.reports[agent.test_report].actions = Append(@, log),
                          !.sessions[agent.driver].used_by = @ \cup {r}]]

\* finish_testing of run r's agent, lines 127-130
FinishTestingOf(w, r) ==
    ReportActionOf(
        [w EXCEPT !.objects.reports[w.requests[r].test_report].summary =
                      [by |-> r, text |-> "finished"]],
        r, "FINISH")

\* app.py:55-61: the exception left run_tests; the request renders a report
\* of its own and the session is left as it is
ExecutionFailedOf(w, r) ==
    [requests |-> [w.requests EXCEPT ![r].pc = "done",
                                     ![r].rendered = Len(w.objects.reports) + 1],
     objects |-> [w.objects EXCEPT !.reports =
                      Append(@, [url |-> r,
                                 actions |-> <<[step |-> 1, status |-> "FATAL_ERROR",
                                                by |-> r, via |-> NoRef]>>,
                                 summary |-> [by |-> r, text |-> "Execution Failed"]])]]

\* the constructor handing every agent the first report dict made
ConstructSharingReport(r) ==
    /\ requests[r].pc = "received"
    /\ objects' = [objects EXCEPT
                      !.sessions = Append(@, [state |-> "live", used_by |-> {}, closed_by |-> {}]),
                      !.reports = IF @ = <<>>
                                  THEN <<[url |-> r, actions |-> <<>>, summary |-> NoSummary]>>
                                  ELSE @]
    /\ requests' = [requests EXCEPT ![r].pc = "constructed",
                                    ![r].driver = Len(objects.sessions) + 1,
                                    ![r].test_report = 1]
    /\ UNCHANGED <<single, budget>>

\* app.py:45 and __init__, lines 35-40: a new session, a new dict
Construct(r) ==
    /\ requests[r].pc = "received"
    /\ objects' = [objects EXCEPT
                      !.sessions = Append(@, [state |-> "live", used_by |-> {}, closed_by |-> {}]),
                      !.reports = Append(@, [url |-> r, actions |-> <<>>, summary |-> NoSummary])]
    /\ requests' = [requests EXCEPT ![r].pc = "constructed",
                                    ![r].driver = Len(objects.sessions) + 1,
                                    ![r].test_report = Len(objects.reports) + 1]
    /\ UNCHANGED <<single, budget>>

\* lines 143-144; driver.get may raise
Start(r) ==
    /\ requests[r].pc = "constructed"
    /\ \E raises \in BOOLEAN :
        /\ Spend(Fault(raises))
        /\ IF raises
           THEN Become(ExecutionFailedOf(World, r))
           ELSE LET w == ReportActionOf(World, r, "PASS")
                IN  Become([w EXCEPT !.requests[r].pc = "loop"])
    /\ UNCHANGED single


DriverOf(r) == objects.sessions[requests[r].driver]
ActionsOf(r) == objects.reports[requests[r].test_report].actions

\* lines 146-148: an iteration begins
InLoop(r) ==
    /\ requests[r].pc = "loop"
    /\ requests[r].step < max_steps
    /\ ~(ActionsOf(r) # <<>> /\ Last(ActionsOf(r)).status = "FINISH")

\* lines 146-148: the range is exhausted or the last record is FINISH
LoopEnds(r) ==
    /\ requests[r].pc = "loop"
    /\ ~InLoop(r)
    /\ requests' = [requests EXCEPT ![r].pc = "quit"]
    /\ UNCHANGED <<single, objects, budget>>

\* line 150: get_page_state reads the driver outside the try; it raises on
\* a closed session, and may on a live one
ObserveRaises(r) ==
    /\ InLoop(r)
    /\ Spend(Fault(DriverOf(r).state = "live"))
    /\ Become(ExecutionFailedOf(World, r))
    /\ UNCHANGED single

\* an iteration whose text is click_element, type_text or navigate_to
StepAction(r) ==
    /\ InLoop(r)
    /\ DriverOf(r).state = "live"
    /\ \E status \in {"PASS", "ERROR"} :
        /\ Spend(Fault(status = "ERROR"))
        /\ Become([ReportActionOf(World, r, status) EXCEPT !.requests[r].step = @ + 1])
    /\ UNCHANGED single

\* an iteration whose text is finish_testing
StepFinish(r) ==
    /\ InLoop(r)
    /\ DriverOf(r).state = "live"
    /\ Become([FinishTestingOf(World, r) EXCEPT !.requests[r].step = @ + 1])
    /\ UNCHANGED <<single, budget>>

\* lines 94-96: the remote call fails; FATAL_ERROR, then the canned finish
StepModelFails(r) ==
    /\ InLoop(r)
    /\ DriverOf(r).state = "live"
    /\ Spend(1)
    /\ Become([FinishTestingOf(ReportActionOf(World, r, "FATAL_ERROR"), r)
                  EXCEPT !.requests[r].step = @ + 1])
    /\ UNCHANGED single

\* lines 157-159: the eval raises; FATAL_ERROR, then break
StepEvalRaises(r) ==
    /\ InLoop(r)
    /\ DriverOf(r).state = "live"
    /\ Spend(1)
    /\ Become([ReportActionOf(World, r, "FATAL_ERROR") EXCEPT !.requests[r].pc = "quit"])
    /\ UNCHANGED single

\* line 155 on the text test_report['actions'].clear()
StepClear(r) ==
    /\ InLoop(r)
    /\ DriverOf(r).state = "live"
    /\ Spend(1)
    /\ requests' = [requests EXCEPT ![r].step = @ + 1]
    /\ objects' = [objects EXCEPT !.reports[requests[r].test_report].actions = <<>>]
    /\ UNCHANGED single

\* line 155 on the text driver.quit()
StepDriverQuit(r) ==
    /\ InLoop(r)
    /\ DriverOf(r).state = "live"
    /\ Spend(1)
    /\ requests' = [requests EXCEPT ![r].step = @ + 1]
    /\ objects' = [objects EXCEPT !.sessions[requests[r].driver].state = "closed",
                                  !.sessions[requests[r].driver].closed_by = @ \cup {r}]
    /\ UNCHANGED single

\* lines 161-162 and app.py:46-53: driver.quit(), the report is rendered
QuitAndRender(r) ==
    /\ requests[r].pc = "quit"
    /\ requests' = [requests EXCEPT ![r].pc = "done",
                                    ![r].rendered = requests[r].test_report]
    /\ objects' = [objects EXCEPT !.sessions[requests[r].driver].state = "closed",
                                  !.sessions[requests[r].driver].closed_by = @ \cup {r}]
    /\ UNCHANGED <<single, budget>>

NextTwoRuns ==
    \/ \E r \in Runs : Construct(r)
    \/ \E r \in Runs : Start(r)
    \/ \E r \in Runs : LoopEnds(r)
    \/ \E r \in Runs : ObserveRaises(r)
    \/ \E r \in Runs : StepAction(r)
    \/ \E r \in Runs : StepFinish(r)
    \/ \E r \in Runs : StepModelFails(r)
    \/ \E r \in Runs : StepEvalRaises(r)
    \/ \E r \in Runs : StepClear(r)
    \/ \E r \in Runs : StepDriverQuit(r)
    \/ \E r \in Runs : QuitAndRender(r)

SpecTwoRuns == InitTwoRuns /\ [][NextTwoRuns]_vars

Constructed(r) == requests[r].driver # NoRef

\* the records of a report are run r's, numbered 1..N
OwnRecords(r, ref) ==
    \A i \in DOMAIN objects.reports[ref].actions :
        /\ objects.reports[ref].actions[i].by = r
        /\ objects.reports[ref].actions[i].step = i

\* C14: two runs served side by side share no agent state: a run's report
\* holds only records of its own steps, numbered 1..N, read from its own
\* session; its history and summary are its own; its session is used and
\* closed by no other run.
C14_RunsShareNothing ==
    \A r \in Runs :
        /\ \A i \in DOMAIN requests[r].history : requests[r].history[i].by = r
        /\ Constructed(r) =>
            /\ \A q \in Runs \ {r} :
                Constructed(q) =>
                    /\ requests[q].driver # requests[r].driver
                    /\ requests[q].test_report # requests[r].test_report
            /\ OwnRecords(r, requests[r].test_report)
            /\ \A i \in DOMAIN ActionsOf(r) : ActionsOf(r)[i].via = requests[r].driver
            /\ objects.reports[requests[r].test_report].summary.by \in {NoRef, r}
            /\ DriverOf(r).used_by \subseteq {r}
            /\ DriverOf(r).closed_by \subseteq {r}
        /\ requests[r].rendered # NoRef =>
            /\ OwnRecords(r, requests[r].rendered)
            /\ objects.reports[requests[r].rendered].summary.by \in {NoRef, r}

\* both runs are in their loops at once, each with steps taken, and one has
\* finished and closed its session while the other's is still live
C14_Witness ==
    /\ requests[1].pc = "loop" /\ requests[1].step >= 2
    /\ requests[2].pc = "done" /\ requests[2].step >= 2
    /\ requests[2].rendered = requests[2].test_report
    /\ Len(ActionsOf(1)) >= 3 /\ Len(ActionsOf(2)) >= 3
    /\ DriverOf(1).state = "live" /\ DriverOf(2).state = "closed"

====
